---- MODULE Spec2Model ----
(***************************************************************************)
(* carbontracker/components/component.py: the backend registry, the        *)
(* Component object (handler selection, per-epoch sample buckets, energy   *)
(* integration) as a state machine.  One Component object is followed from *)
(* its construction through any sequence of method calls.                  *)
(*                                                                         *)
(* Python values are tagged records, so that None, a list, a bool and a    *)
(* handler object are all different values.  Exceptions are named by       *)
(* their class.  numpy's float64 results are kept as exact fractions       *)
(* [num, den] in lowest terms (rounding is not modelled); nan is NaN.      *)
(***************************************************************************)
EXTENDS Integers, Sequences, FiniteSets, TLC

VARIABLES
    components,    \* the module-level registry list (lines 15-26)
    pc,            \* "start": no Component yet; "live": constructed; "failed": __init__ raised
    name,          \* self.name
    _handler,      \* self._handler
    power_usages,  \* self.power_usages
    cur_epoch,     \* self.cur_epoch
    op,            \* the method called last
    arg,           \* its argument
    raised,        \* the exception it raised, or NoError
    ret,           \* the value it returned
    hcalls,        \* the handler methods it invoked, in order
    hw_avail,      \* what each candidate handler's available() answered in __init__
    epoch_log      \* the epoch arguments of the collect_power_usage calls that were not skipped

vars == <<components, pc, name, _handler, power_usages, cur_epoch,
          op, arg, raised, ret, hcalls, hw_avail, epoch_log>>

selfVars == <<name, _handler, power_usages, cur_epoch>>

----------------------------------------------------------------------------
(* Bounds of the model *)

\* the longest list of candidate handlers a registry entry holds
MaxHandlers == 2
\* the number of collect_power_usage calls with epoch >= 1 that are followed
MaxCalls == 5
\* the largest epoch number passed
MaxEpoch == 2
\* the longest epoch_times list passed to energy_usage
MaxTimes == 2
\* the number of collect_power_usage calls followed when readings vary
MaxSamples == 3

\* the most comma-separated tokens in a create_components string
MaxTokens == 2

----------------------------------------------------------------------------
(* Python values *)

None == [tag |-> "None"]
Unset == [tag |-> "unset"]
PyBool(b) == [bool |-> b]
PyList(s) == [list |-> s]
NoError == "NoError"

\* a float: an exact fraction in lowest terms, or nan
NaN == [nan |-> TRUE]

\* a one-dimensional numpy array
NdArray(s) == [arr |-> s]

RECURSIVE GCD(_, _)
GCD(a, b) == IF b = 0 THEN a ELSE GCD(b, a % b)

Rat(n, d) == LET g == GCD(n, d) IN [num |-> n \div g, den |-> d \div g]

RatAdd(a, b) ==
    IF a = NaN \/ b = NaN THEN NaN
    ELSE Rat(a.num * b.den + b.num * a.den, a.den * b.den)

RatMulInt(a, k) == IF a = NaN THEN NaN ELSE Rat(a.num * k, a.den)

RatDivInt(a, k) == IF a = NaN THEN NaN ELSE Rat(a.num, a.den * k)

Range(s) == {s[i] : i \in DOMAIN s}

MinOf(S) == CHOOSE x \in S : \A y \in S : x <= y

SeqsUpTo(S, n) == UNION {[1..k -> S] : k \in 0..n}

----------------------------------------------------------------------------
(* The registry: lines 15-39 *)

\* the i-th handler object in the handlers list of hardware type t:
\* Handler("gpu", 1) is nvidia.NvidiaGPU(), Handler("cpu", 1) is intel.IntelCPU()
Handler(t, i) == [tag |-> "handler", type |-> t, idx |-> i]

\* The registry list with n candidate handlers per entry.  Registry(1) is the
\* list as shipped; a longer list has further backends appended to each
\* entry's handlers.
Registry(n) ==
    << [name |-> "gpu", error |-> "GPUError",
        handlers |-> PyList([i \in 1..n |-> Handler("gpu", i)])],
       [name |-> "cpu", error |-> "CPUError",
        handlers |-> PyList([i \in 1..n |-> Handler("cpu", i)])] >>

component_names == [i \in DOMAIN components |-> components[i].name]

\* the loop returning the first entry's error whatever the name
error_by_name_first(n) == components[1].error

\* the first entry with that name, as the for loop finds it; None when the
\* loop falls through
error_by_name(n) ==
    LET hits == {i \in DOMAIN components : components[i].name = n}
    IN  IF hits = {} THEN None ELSE components[MinOf(hits)].error

handlers_by_name(n) ==
    LET hits == {i \in DOMAIN components : components[i].name = n}
    IN  IF hits = {} THEN None ELSE components[MinOf(hits)].handlers

----------------------------------------------------------------------------
(* The handler objects: carbontracker.components.gpu.nvidia and            *)
(* carbontracker.components.cpu.intel, through the capability interface    *)
(* they expose.                                                            *)

\* the number of devices a handler reports: two GPUs, one CPU package
DeviceCount(h) == IF h.type = "gpu" THEN 2 ELSE 1

\* handler.devices()
HandlerDevices(h) == PyList([d \in 1..DeviceCount(h) |-> d])

\* what handler.power_usage() can return: one reading per device, in the
\* order of devices()
IsPowerUsageOf(h, reading) == Len(reading) = DeviceCount(h)

\* a call of method m on handler object h
HCall(h, m) == [target |-> h, method |-> m]

----------------------------------------------------------------------------
(* Component: lines 41-96 *)

\* the membership test left out
NameRegistered_unchecked(n) == TRUE

\* line 44: name not in component_names()
NameRegistered(n) == n \in Range(component_names)

\* the loop without its early return: the last available handler wins
RECURSIVE ForHandlers_last(_, _)
ForHandlers_last(hs, av) ==
    IF hs = <<>> THEN [raised |-> NoError, value |-> None, hcalls |-> <<>>]
    ELSE LET h == Head(hs)
             r == ForHandlers_last(Tail(hs), av)
         IN  [r EXCEPT !.hcalls = <<HCall(h, "available")>> \o @,
                       !.value = IF r.value = None /\ av[h] THEN h ELSE @]

\* lines 58-61: the for loop over the candidate handlers; av[h] is what
\* h.available() answers
RECURSIVE ForHandlers(_, _)
ForHandlers(hs, av) ==
    IF hs = <<>> THEN [raised |-> NoError, value |-> None, hcalls |-> <<>>]
    ELSE LET h == Head(hs)
         IN  IF av[h]
             THEN [raised |-> NoError, value |-> h,
                   hcalls |-> <<HCall(h, "available")>>]
             ELSE LET r == ForHandlers(Tail(hs), av)
                  IN  [r EXCEPT !.hcalls = <<HCall(h, "available")>> \o @]

\* no available handler raised at once instead of recorded as None
_determine_handler_eager(n, av) ==
    LET handlers == handlers_by_name(n)
        r == ForHandlers(handlers.list, av)
    IN  IF r.value = None THEN [r EXCEPT !.raised = error_by_name(n)] ELSE r

\* Component._determine_handler; iterating None is a TypeError
_determine_handler(n, av) ==
    LET handlers == handlers_by_name(n)
    IN  IF handlers = None
        THEN [raised |-> "TypeError", value |-> None, hcalls |-> <<>>]
        ELSE ForHandlers(handlers.list, av)

\* the handlers whose available() __init__ may call for name n
Candidates(n) ==
    LET handlers == handlers_by_name(n)
    IN  IF handlers = None THEN {} ELSE Range(handlers.list)

\* Component.__init__(name); av is what each candidate answers when probed
__init__(n, av) ==
    /\ pc = "start"
    /\ op' = "__init__"
    /\ arg' = [name |-> n]
    /\ name' = n
    /\ ret' = None
    /\ UNCHANGED <<components, epoch_log>>
    /\ IF ~NameRegistered(n)
       THEN /\ raised' = "ComponentNameError"
            /\ pc' = "failed"
            /\ hcalls' = <<>>
            /\ UNCHANGED <<_handler, power_usages, cur_epoch, hw_avail>>
       ELSE LET r == _determine_handler(n, av)
            IN  /\ hcalls' = r.hcalls
                /\ raised' = r.raised
                /\ hw_avail' = av
                /\ IF r.raised # NoError
                   THEN /\ pc' = "failed"
                        /\ UNCHANGED <<_handler, power_usages, cur_epoch>>
                   ELSE /\ pc' = "live"
                        /\ _handler' = r.value
                        /\ power_usages' = <<>>
                        /\ cur_epoch' = -1

\* the handler property, lines 50-54: what reading self.handler gives
handler ==
    IF _handler = None
    THEN [raised |-> error_by_name(name), value |-> None]
    ELSE [raised |-> NoError, value |-> _handler]

\* a method that only delegates to self.handler.<m>() and returns v
Delegate(m, v) ==
    /\ pc = "live"
    /\ op' = m
    /\ arg' = None
    /\ UNCHANGED <<components, pc, selfVars, hw_avail, epoch_log>>
    /\ LET h == handler
       IN  IF h.raised # NoError
           THEN /\ raised' = h.raised
                /\ ret' = None
                /\ hcalls' = <<>>
           ELSE /\ raised' = NoError
                /\ ret' = v
                /\ hcalls' = <<HCall(h.value, m)>>

\* Component.devices
devices == Delegate("devices", IF _handler = None THEN None ELSE HandlerDevices(_handler))

\* Component.init
init == Delegate("init", None)

\* Component.shutdown
shutdown == Delegate("shutdown", None)

\* available() resolving the handler again
available_reprobing ==
    /\ pc = "live"
    /\ op' = "available"
    /\ arg' = None
    /\ raised' = NoError
    /\ \E av \in [Candidates(name) -> BOOLEAN] :
          LET r == _determine_handler(name, av)
          IN  /\ _handler' = r.value
              /\ hcalls' = r.hcalls
              /\ ret' = PyBool(r.value # None)
    /\ UNCHANGED <<components, pc, name, power_usages, cur_epoch, hw_avail, epoch_log>>

\* Component.available
available ==
    /\ pc = "live"
    /\ op' = "available"
    /\ arg' = None
    /\ raised' = NoError
    /\ ret' = PyBool(_handler # None)
    /\ hcalls' = <<>>
    /\ UNCHANGED <<components, pc, selfVars, hw_avail, epoch_log>>

\* no epoch skipped
Skipped_never(epoch) == FALSE

\* epoch 0 not skipped
Skipped_negative_only(epoch) == epoch < 0

\* line 70: the epochs that are skipped
Skipped(epoch) == epoch < 1

\* a bucket opened only for a larger epoch
OpensBucket_larger(epoch) == epoch > cur_epoch

\* a bucket opened by every call
OpensBucket_always(epoch) == TRUE

\* line 73: whether the call opens a new bucket
OpensBucket(epoch) == epoch # cur_epoch

\* a call that opens a bucket returns without taking a sample
collect_power_usage_open_only(epoch, reading) ==
    /\ pc = "live"
    /\ op' = "collect_power_usage"
    /\ arg' = [epoch |-> epoch]
    /\ ret' = None
    /\ UNCHANGED <<components, pc, name, _handler, hw_avail>>
    /\ IF Skipped(epoch)
       THEN /\ raised' = NoError
            /\ hcalls' = <<>>
            /\ UNCHANGED <<power_usages, cur_epoch, epoch_log>>
       ELSE /\ epoch_log' = Append(epoch_log, epoch)
            /\ IF OpensBucket(epoch)
               THEN /\ cur_epoch' = epoch
                    /\ power_usages' = Append(power_usages, <<>>)
                    /\ raised' = NoError
                    /\ hcalls' = <<>>
               ELSE /\ cur_epoch' = cur_epoch
                    /\ IF handler.raised # NoError
                       THEN /\ raised' = handler.raised
                            /\ hcalls' = <<>>
                            /\ power_usages' = power_usages
                       ELSE /\ IsPowerUsageOf(handler.value, reading)
                            /\ raised' = NoError
                            /\ hcalls' = <<HCall(handler.value, "power_usage")>>
                            /\ power_usages' =
                                 [power_usages EXCEPT ![Len(power_usages)] = Append(@, reading)]

\* Component.collect_power_usage(epoch); reading is what
\* handler.power_usage() returns if it is reached
collect_power_usage(epoch, reading) ==
    /\ pc = "live"
    /\ op' = "collect_power_usage"
    /\ arg' = [epoch |-> epoch]
    /\ ret' = None
    /\ UNCHANGED <<components, pc, name, _handler, hw_avail>>
    /\ IF Skipped(epoch)
       THEN /\ raised' = NoError
            /\ hcalls' = <<>>
            /\ UNCHANGED <<power_usages, cur_epoch, epoch_log>>
       ELSE LET opens == OpensBucket(epoch)
                pu1 == IF opens THEN Append(power_usages, <<>>) ELSE power_usages
                h == handler
            IN  /\ epoch_log' = Append(epoch_log, epoch)
                /\ cur_epoch' = IF opens THEN epoch ELSE cur_epoch
                /\ IF pu1 = <<>>
                   THEN \* self.power_usages[-1] on an empty list
                        /\ raised' = "IndexError"
                        /\ hcalls' = <<>>
                        /\ power_usages' = pu1
                   ELSE IF h.raised # NoError
                   THEN /\ raised' = h.raised
                        /\ hcalls' = <<>>
                        /\ power_usages' = pu1
                   ELSE /\ IsPowerUsageOf(h.value, reading)
                        /\ raised' = NoError
                        /\ hcalls' = <<HCall(h.value, "power_usage")>>
                        /\ power_usages' =
                             [pu1 EXCEPT ![Len(pu1)] = Append(@, reading)]

\* line 88: joules per kilowatt-hour
JoulesPerKWh == 3600000

RECURSIVE SumSeq(_)
SumSeq(s) == IF s = <<>> THEN 0 ELSE Head(s) + SumSeq(Tail(s))

\* np.mean(power) without axis=0: the mean over all readings of the bucket
np_mean_flat(power) ==
    IF power = <<>> THEN NaN
    ELSE NdArray(<< Rat(SumSeq([i \in DOMAIN power |-> SumSeq(power[i])]),
                        Len(power) * Len(power[1])) >>)

\* np.mean(power, axis=0): per device, the mean over the bucket's samples;
\* the scalar nan for a bucket without samples
np_mean_axis0(power) ==
    IF power = <<>> THEN NaN
    ELSE NdArray([d \in DOMAIN power[1] |->
            Rat(SumSeq([i \in DOMAIN power |-> power[i][d]]), Len(power))])

\* np.multiply(avg, time)
np_multiply(avg, time) ==
    IF avg = NaN THEN NaN
    ELSE NdArray([d \in DOMAIN avg.arr |-> RatMulInt(avg.arr[d], time)])

RECURSIVE SumRats(_)
SumRats(s) == IF s = <<>> THEN Rat(0, 1) ELSE RatAdd(Head(s), SumRats(Tail(s)))

\* ndarray.sum(), and the sum() of a numpy scalar
np_sum(a) == IF a = NaN THEN NaN ELSE SumRats(a.arr)

\* lines 85-88: one iteration of the loop
EpochEnergy(power, time) ==
    LET avg_power_usage == np_mean_axis0(power)
        e == np_sum(np_multiply(avg_power_usage, time))
    IN  RatDivInt(e, JoulesPerKWh)

\* the loop over every bucket, the last time reused when the times run out
RECURSIVE EnergyUsages_all_buckets(_, _)
EnergyUsages_all_buckets(pus, times) ==
    IF pus = <<>> \/ times = <<>> THEN <<>>
    ELSE <<EpochEnergy(Head(pus), Head(times))>>
         \o EnergyUsages_all_buckets(Tail(pus),
                IF Len(times) > 1 THEN Tail(times) ELSE times)

\* lines 81-90: the loop over zip(self.power_usages, epoch_times)
RECURSIVE EnergyUsages(_, _)
EnergyUsages(pus, times) ==
    IF pus = <<>> \/ times = <<>> THEN <<>>
    ELSE <<EpochEnergy(Head(pus), Head(times))>>
         \o EnergyUsages(Tail(pus), Tail(times))

\* energy_usage starting a fresh run: the buckets it read are dropped
energy_usage_consuming(epoch_times) ==
    /\ pc = "live"
    /\ op' = "energy_usage"
    /\ arg' = [epoch_times |-> epoch_times]
    /\ raised' = NoError
    /\ ret' = PyList(EnergyUsages(power_usages, epoch_times))
    /\ hcalls' = <<>>
    /\ power_usages' = <<>>
    /\ cur_epoch' = -1
    /\ UNCHANGED <<components, pc, name, _handler, hw_avail, epoch_log>>

\* Component.energy_usage(epoch_times)
energy_usage(epoch_times) ==
    /\ pc = "live"
    /\ op' = "energy_usage"
    /\ arg' = [epoch_times |-> epoch_times]
    /\ raised' = NoError
    /\ ret' = PyList(EnergyUsages(power_usages, epoch_times))
    /\ hcalls' = <<>>
    /\ UNCHANGED <<components, pc, selfVars, hw_avail, epoch_log>>

----------------------------------------------------------------------------
(* create_components: lines 98-103.  A str is a sequence of one-character  *)
(* strings.                                                                *)

\* the characters str.strip() removes from both ends
Whitespace == {" ", "\t", "\n"}

RECURSIVE LStrip(_)
LStrip(s) == IF s # <<>> /\ Head(s) \in Whitespace THEN LStrip(Tail(s)) ELSE s

RECURSIVE RStrip(_)
RStrip(s) ==
    IF s # <<>> /\ s[Len(s)] \in Whitespace
    THEN RStrip(SubSeq(s, 1, Len(s) - 1))
    ELSE s

\* str.strip()
str_strip(s) == RStrip(LStrip(s))

\* the replace left out
str_replace_spaces_kept(s) == s

\* str.replace(" ", "")
RECURSIVE str_replace_spaces(_)
str_replace_spaces(s) ==
    IF s = <<>> THEN <<>>
    ELSE IF Head(s) = " " THEN str_replace_spaces(Tail(s))
    ELSE <<Head(s)>> \o str_replace_spaces(Tail(s))

\* split() as without a separator: empty tokens dropped
RECURSIVE str_split_comma_nonempty(_)
str_split_comma_nonempty(s) ==
    LET commas == {i \in DOMAIN s : s[i] = ","}
    IN  IF commas = {} THEN (IF s = <<>> THEN <<>> ELSE <<s>>)
        ELSE LET i == MinOf(commas)
                 rest == str_split_comma_nonempty(SubSeq(s, i + 1, Len(s)))
             IN  IF i = 1 THEN rest ELSE <<SubSeq(s, 1, i - 1)>> \o rest

\* str.split(","): at least one token, empty tokens kept
RECURSIVE str_split_comma(_)
str_split_comma(s) ==
    LET commas == {i \in DOMAIN s : s[i] = ","}
    IN  IF commas = {} THEN <<s>>
        ELSE LET i == MinOf(commas)
             IN  <<SubSeq(s, 1, i - 1)>> \o str_split_comma(SubSeq(s, i + 1, Len(s)))

\* the str of a sequence of characters
RECURSIVE Str(_)
Str(cs) == IF cs = <<>> THEN "" ELSE Head(cs) \o Str(Tail(cs))

\* Component(name=n) as an expression: the object built, or the exception
NewComponent(n, av) ==
    IF ~NameRegistered(n)
    THEN [raised |-> "ComponentNameError", value |-> None, hcalls |-> <<>>]
    ELSE LET r == _determine_handler(n, av)
         IN  IF r.raised # NoError
             THEN [raised |-> r.raised, value |-> None, hcalls |-> r.hcalls]
             ELSE [raised |-> NoError,
                   value |-> [name |-> n, _handler |-> r.value,
                              power_usages |-> <<>>, cur_epoch |-> -1],
                   hcalls |-> r.hcalls]

\* [Component(name=comp_name) for comp_name in names]: built in order, the
\* first exception ends it
RECURSIVE ComponentList(_, _)
ComponentList(names, av) ==
    IF names = <<>> THEN [raised |-> NoError, value |-> <<>>, hcalls |-> <<>>]
    ELSE LET c == NewComponent(Head(names), av)
         IN  IF c.raised # NoError
             THEN [raised |-> c.raised, value |-> <<>>, hcalls |-> c.hcalls]
             ELSE LET r == ComponentList(Tail(names), av)
                  IN  [raised |-> r.raised,
                       value |-> IF r.raised # NoError THEN <<>> ELSE <<c.value>> \o r.value,
                       hcalls |-> c.hcalls \o r.hcalls]

\* every handler object of the registry
AllHandlers == UNION {Range(components[i].handlers.list) : i \in DOMAIN components}

\* create_components(comp_str); av is what each handler's available() answers
create_components(comp_str, av) ==
    LET norm == str_replace_spaces(str_strip(comp_str))
        names == IF norm = <<"a", "l", "l">>
                 THEN component_names
                 ELSE LET toks == str_split_comma(norm)
                      IN  [i \in DOMAIN toks |-> Str(toks[i])]
        r == ComponentList(names, av)
    IN  /\ op' = "create_components"
        /\ arg' = [comp_str |-> Str(comp_str), chars |-> comp_str]
        /\ raised' = r.raised
        /\ ret' = IF r.raised # NoError THEN None ELSE PyList(r.value)
        /\ hcalls' = r.hcalls
        /\ UNCHANGED <<components, pc, selfVars, hw_avail, epoch_log>>

\* a call of component_names()
call_component_names ==
    /\ op' = "component_names"
    /\ arg' = None
    /\ raised' = NoError
    /\ ret' = PyList(component_names)
    /\ hcalls' = <<>>
    /\ UNCHANGED <<components, pc, selfVars, hw_avail, epoch_log>>

\* a call of error_by_name(n): the entry's exception object, or None
call_error_by_name(n) ==
    /\ op' = "error_by_name"
    /\ arg' = [name |-> n]
    /\ raised' = NoError
    /\ ret' = IF \E i \in DOMAIN components : components[i].name = n
              THEN [exc |-> error_by_name(n)]
              ELSE error_by_name(n)
    /\ hcalls' = <<>>
    /\ UNCHANGED <<components, pc, selfVars, hw_avail, epoch_log>>

\* a call of handlers_by_name(n)
call_handlers_by_name(n) ==
    /\ op' = "handlers_by_name"
    /\ arg' = [name |-> n]
    /\ raised' = NoError
    /\ ret' = handlers_by_name(n)
    /\ hcalls' = <<>>
    /\ UNCHANGED <<components, pc, selfVars, hw_avail, epoch_log>>

----------------------------------------------------------------------------
(* The specifications *)

\* the names a caller passes to Component(name)
NameInputs == {"gpu", "cpu", "nonexistent", ""}

\* the epochs a caller passes
Epochs == {-1, 0} \cup (1..MaxEpoch)

PlainReadings == {<<100>>, <<100, 100>>}
PlainTimes == {3600}

VariedReadings == {<<100>>, <<200>>, <<300>>, <<100, 50>>, <<300, 150>>}
VariedTimes == {1000, 3600}
VariedEpochs == {1, 2}

InitWith(registries) ==
    /\ components \in registries
    /\ pc = "start"
    /\ name = Unset
    /\ _handler = Unset
    /\ power_usages = Unset
    /\ cur_epoch = Unset
    /\ op = "none"
    /\ arg = None
    /\ raised = NoError
    /\ ret = None
    /\ hcalls = <<>>
    /\ hw_avail = Unset
    /\ epoch_log = <<>>

\* the registry as shipped, or with up to MaxHandlers candidates per entry
Init == InitWith({Registry(n) : n \in 1..MaxHandlers})

Next ==
    \/ \E n \in NameInputs : \E av \in [Candidates(n) -> BOOLEAN] : __init__(n, av)
    \/ available
    \/ devices
    \/ init
    \/ shutdown
    \/ \E epoch \in Epochs, reading \in PlainReadings :
          /\ Len(epoch_log) < MaxCalls
          /\ collect_power_usage(epoch, reading)
    \/ \E epoch_times \in SeqsUpTo(PlainTimes, MaxTimes) : energy_usage(epoch_times)

Spec == Init /\ [][Next]_vars

\* the shipped registry, readings and times that vary
InitEnergy == InitWith({Registry(1)})

NextEnergy ==
    \/ \E n \in Range(component_names) :
          \E av \in [Candidates(n) -> BOOLEAN] : __init__(n, av)
    \/ \E epoch \in VariedEpochs, reading \in VariedReadings :
          /\ Len(epoch_log) < MaxSamples
          /\ collect_power_usage(epoch, reading)
    \/ \E epoch_times \in SeqsUpTo(VariedTimes, MaxTimes) : energy_usage(epoch_times)

SpecEnergy == InitEnergy /\ [][NextEnergy]_vars

\* the tokens a selection string is made of, as characters
Tokens ==
    { <<"g", "p", "u">>, <<"c", "p", "u">>, <<"a", "l", "l">>, <<"A", "L", "L">>,
      <<>>, <<"g", " ", "p", "u">>, <<"a", " ", "l", "l">>, <<"a", "\t", "l", "l">> }

\* a comma, a comma and a space, a doubled comma
Separators == { <<",">>, <<",", " ">>, <<",", ",">> }
LeadPads == { <<>>, <<" ">>, <<"\t">> }
TrailPads == { <<>>, <<" ">> }

\* k tokens joined by separators
RECURSIVE Joined(_)
Joined(k) ==
    IF k = 1 THEN Tokens
    ELSE {t \o sep \o rest : t \in Tokens, sep \in Separators, rest \in Joined(k - 1)}

\* the strings passed to create_components
CompStrInputs ==
    {l \o body \o r : l \in LeadPads, r \in TrailPads,
                      body \in UNION {Joined(k) : k \in 1..MaxTokens}}

\* one call of a module-level function, with the registry as shipped
NextModule ==
    \/ /\ op = "none"
       /\ \E comp_str \in CompStrInputs, av \in [AllHandlers -> BOOLEAN] :
             create_components(comp_str, av)
    \/ /\ op = "none"
       /\ call_component_names
    \/ /\ op = "none"
       /\ \E n \in NameInputs : call_error_by_name(n)
    \/ /\ op = "none"
       /\ \E n \in NameInputs : call_handlers_by_name(n)

SpecModule == InitEnergy /\ [][NextModule]_vars

----------------------------------------------------------------------------
(* Properties *)

RegisteredNames == {"gpu", "cpu"}

NotAvailableError(n) == IF n = "gpu" THEN "GPUError" ELSE "CPUError"

MinInt(a, b) == IF a <= b THEN a ELSE b

\* the lengths of the maximal runs of equal values of a sequence, in order
RECURSIVE RunLengths(_)
RunLengths(log) ==
    IF log = <<>> THEN <<>>
    ELSE LET rest == RunLengths(Tail(log))
         IN  IF Len(log) >= 2 /\ log[1] = log[2]
             THEN <<rest[1] + 1>> \o Tail(rest)
             ELSE <<1>> \o rest

BucketSizes == [i \in DOMAIN power_usages |-> Len(power_usages[i])]

\* the distinct values of a sequence, in the order they first occur
RECURSIVE FirstSeen(_)
FirstSeen(log) ==
    IF log = <<>> THEN <<>>
    ELSE LET front == FirstSeen(SubSeq(log, 1, Len(log) - 1))
             x == log[Len(log)]
         IN  IF x \in Range(front) THEN front ELSE Append(front, x)

Count(log, x) == Cardinality({i \in DOMAIN log : log[i] = x})

\* no value occurs again after a different one
Contiguous(log) ==
    \A i, j \in DOMAIN log :
        (i < j /\ log[i] = log[j]) => \A k \in i..j : log[k] = log[i]

\* one bucket per distinct epoch seen, in first-seen order, holding that
\* epoch's samples
OneBucketPerEpoch ==
    LET seen == FirstSeen(epoch_log)
    IN  /\ Len(power_usages) = Len(seen)
        /\ _handler # None =>
             \A i \in DOMAIN seen : Len(power_usages[i]) = Count(epoch_log, seen[i])

\* C1: Component(name) selects the first candidate in registry list order
\* whose available() answered true, and None when none did; available()
\* returns true iff some candidate answered true in the constructor.
C1_FirstAvailableSelected ==
    pc = "live" =>
        LET hs == handlers_by_name(name).list
            ok == {i \in DOMAIN hs : hw_avail[hs[i]]}
        IN  /\ _handler = IF ok = {} THEN None ELSE hs[MinOf(ok)]
            /\ op = "available" => ret = PyBool(ok # {})

\* C1 witness: the first of two candidates unavailable, the second available
\* and selected, and available() answered
C1_Witness ==
    /\ pc = "live"
    /\ op = "available"
    /\ ret = PyBool(TRUE)
    /\ Len(handlers_by_name(name).list) = 2
    /\ ~hw_avail[Handler(name, 1)]
    /\ hw_avail[Handler(name, 2)]
    /\ _handler = Handler(name, 2)

\* C2: with a resolved handler, power_usages is the run-length grouping of
\* the epochs of the non-skipped calls: one bucket per maximal run of equal
\* epochs, in call order, holding one sample per call of the run.
C2_RunLengthBuckets ==
    (pc = "live" /\ _handler # None) => BucketSizes = RunLengths(epoch_log)

\* C2 witness: epochs 1,1,1,2,2 gave two buckets of 3 and 2 samples
C2_Witness ==
    /\ pc = "live"
    /\ _handler # None
    /\ epoch_log = <<1, 1, 1, 2, 2>>
    /\ BucketSizes = <<3, 2>>

\* C3 as stated: in every reachable state power_usages has one bucket per
\* distinct epoch number seen, in first-seen order.
C3_OneBucketPerDistinctEpoch ==
    pc = "live" => OneBucketPerEpoch

\* C3 amended: when the calls of each epoch number are consecutive (no epoch
\* number is seen again after a different one, as with non-decreasing
\* epochs), power_usages has one bucket per distinct epoch number seen, in
\* first-seen order.
C3_OneBucketPerEpochWhenContiguous ==
    (pc = "live" /\ Contiguous(epoch_log)) => OneBucketPerEpoch

\* C3 witness: two distinct epochs, one of them sampled more than once
C3_Witness ==
    /\ pc = "live"
    /\ _handler # None
    /\ Contiguous(epoch_log)
    /\ Len(epoch_log) >= 3
    /\ Cardinality(Range(epoch_log)) = 2
    /\ Len(power_usages) = 2

\* C4: a collect_power_usage call with epoch < 1 changes neither
\* power_usages nor cur_epoch, reaches no handler and raises nothing, with
\* or without a resolved handler.
C4_SkippedEpochNoOp ==
    [][(op' = "collect_power_usage" /\ arg'.epoch < 1) =>
          /\ power_usages' = power_usages
          /\ cur_epoch' = cur_epoch
          /\ epoch_log' = epoch_log
          /\ hcalls' = <<>>
          /\ raised' = NoError]_vars

\* C4 witness: epoch 0 passed to a Component without a handler that holds a
\* bucket already
C4_Witness ==
    /\ pc = "live"
    /\ op = "collect_power_usage"
    /\ arg.epoch = 0
    /\ _handler = None
    /\ power_usages # <<>>
    /\ raised = NoError

\* C5: devices(), init() and shutdown() on a Component without a resolved
\* handler raise the error of its hardware type (GPUError for "gpu",
\* CPUError for "cpu") and reach no handler, in every state.
C5_NotAvailableError ==
    (pc = "live" /\ op \in {"devices", "init", "shutdown"} /\ _handler = None) =>
        /\ raised = NotAvailableError(name)
        /\ hcalls = <<>>

\* C5 witness: shutdown() raised CPUError after samples were asked for
C5_Witness ==
    /\ pc = "live"
    /\ op = "shutdown"
    /\ name = "cpu"
    /\ _handler = None
    /\ raised = "CPUError"
    /\ epoch_log # <<>>

\* C6: Component(name) with an unregistered name raises ComponentNameError
\* before any candidate's available() is called.
C6_UnknownNameFails ==
    (op = "__init__" /\ arg.name \notin RegisteredNames) =>
        /\ raised = "ComponentNameError"
        /\ pc = "failed"
        /\ hcalls = <<>>

\* C6 witness: Component("nonexistent") raised ComponentNameError
C6_Witness ==
    /\ op = "__init__"
    /\ arg.name = "nonexistent"
    /\ raised = "ComponentNameError"

\* C7: Component(name) with a registered name completes whatever the
\* candidates answer, with empty power_usages and cur_epoch -1; a
\* not-available error is raised only by a later call that needs the handler.
C7_ConstructionNeverFailsForNoBackend ==
    /\ (op = "__init__" /\ arg.name \in RegisteredNames) =>
          /\ raised = NoError
          /\ pc = "live"
          /\ power_usages = <<>>
          /\ cur_epoch = -1
    /\ raised \in {"GPUError", "CPUError"} =>
          /\ _handler = None
          /\ op \in {"devices", "init", "shutdown", "collect_power_usage"}

\* C7 witness: constructed with two candidates, both unavailable
C7_Witness ==
    /\ op = "__init__"
    /\ pc = "live"
    /\ _handler = None
    /\ Cardinality(DOMAIN hw_avail) = 2
    /\ \A h \in DOMAIN hw_avail : ~hw_avail[h]

\* C8: once constructed, no call changes the selected handler and no call
\* asks a candidate's available() again.
C8_HandlerFixedAtConstruction ==
    [][pc = "live" =>
          /\ _handler' = _handler
          /\ \A i \in DOMAIN hcalls' : hcalls'[i].method # "available"]_vars

\* C8 witness: a Component with a handler after samples in two buckets and
\* an energy_usage call
C8_Witness ==
    /\ pc = "live"
    /\ op = "energy_usage"
    /\ _handler = Handler(name, 2)
    /\ Len(power_usages) >= 2
    /\ Len(arg.epoch_times) >= 1

\* C9: energy_usage returns min(len(power_usages), len(epoch_times)) values,
\* the i-th from the i-th bucket and the i-th time, and raises nothing.
C9_EnergyPairsPrefix ==
    op = "energy_usage" =>
        /\ raised = NoError
        /\ Len(ret.list) = MinInt(Len(power_usages), Len(arg.epoch_times))
        /\ \A i \in DOMAIN ret.list :
              ret.list[i] = EpochEnergy(power_usages[i], arg.epoch_times[i])

\* C9 witness: two different buckets and one time gave one value
C9_Witness ==
    /\ op = "energy_usage"
    /\ Len(power_usages) = 2
    /\ power_usages[1] # power_usages[2]
    /\ Len(arg.epoch_times) = 1
    /\ Len(ret.list) = 1

\* the sum of all readings of a bucket
TotalWatts(power) == SumSeq([i \in DOMAIN power |-> SumSeq(power[i])])

\* C10: for a non-empty bucket and its time t the value returned is
\* t * (sum of all readings of the bucket) / (number of samples * 3,600,000),
\* the sum over devices of the mean power times t in kWh; [[100],[200],[300]]
\* with t = 3600 gives 1/5 and [[100,50],[300,150]] with t = 1000 gives 1/12.
C10_EnergyValue ==
    op = "energy_usage" =>
        \A i \in DOMAIN ret.list :
            LET power == power_usages[i]
                t == arg.epoch_times[i]
            IN  power # <<>> =>
                  /\ ret.list[i] = Rat(t * TotalWatts(power), Len(power) * 3600000)
                  /\ (power = << <<100>>, <<200>>, <<300>> >> /\ t = 3600)
                        => ret.list[i] = [num |-> 1, den |-> 5]
                  /\ (power = << <<100, 50>>, <<300, 150>> >> /\ t = 1000)
                        => ret.list[i] = [num |-> 1, den |-> 12]

\* C10 witness: the two-device bucket [[100,50],[300,150]] over 1000 s
C10_Witness ==
    /\ op = "energy_usage"
    /\ Len(ret.list) >= 1
    /\ power_usages[1] = << <<100, 50>>, <<300, 150>> >>
    /\ arg.epoch_times[1] = 1000
    /\ ret.list[1] = [num |-> 1, den |-> 12]

\* C11: energy_usage changes no state of the Component: power_usages and
\* cur_epoch (and name and _handler) are after the call what they were
\* before it, so the next collect_power_usage call finds the same last
\* bucket and the same current epoch.
C11_EnergyUsageChangesNothing ==
    [][op' = "energy_usage" =>
          /\ power_usages' = power_usages
          /\ cur_epoch' = cur_epoch
          /\ name' = name
          /\ _handler' = _handler]_vars

\* C11 witness: energy_usage returned a value for a Component that holds
\* two buckets
C11_Witness ==
    /\ pc = "live"
    /\ op = "energy_usage"
    /\ _handler # None
    /\ Len(power_usages) = 2
    /\ cur_epoch >= 1
    /\ Len(ret.list) >= 1

\* C15 as stated: collect_power_usage(epoch) with epoch >= 1 on a Component
\* without a resolved handler raises the error of its hardware type and
\* leaves power_usages and cur_epoch as they were.
C15_FailedCollectChangesNothing ==
    [][(pc = "live" /\ _handler = None
        /\ op' = "collect_power_usage" /\ arg'.epoch >= 1) =>
          /\ raised' = NotAvailableError(name)
          /\ power_usages' = power_usages
          /\ cur_epoch' = cur_epoch]_vars

\* C16: with a resolved handler every bucket of power_usages holds at least
\* one sample in every reachable state, and energy_usage returns no nan.
C16_NoEmptyBucket ==
    (pc = "live" /\ _handler # None) =>
        /\ \A i \in DOMAIN power_usages : power_usages[i] # <<>>
        /\ op = "energy_usage" => \A i \in DOMAIN ret.list : ret.list[i] # NaN

\* C16 witness: energy_usage over two buckets of a Component with a handler
C16_Witness ==
    /\ pc = "live"
    /\ _handler # None
    /\ op = "energy_usage"
    /\ Len(power_usages) = 2
    /\ Len(ret.list) = 2

\* C17: cur_epoch is -1 exactly when power_usages is empty; otherwise it is
\* >= 1 and is the epoch of the latest collect_power_usage call that was not
\* skipped; the last-bucket access never raises IndexError.
C17_EpochMarker ==
    pc = "live" =>
        /\ (cur_epoch = -1) <=> (power_usages = <<>>)
        /\ (power_usages = <<>>) <=> (epoch_log = <<>>)
        /\ power_usages # <<>> =>
              /\ cur_epoch >= 1
              /\ cur_epoch = epoch_log[Len(epoch_log)]
        /\ raised # "IndexError"

\* C17 witness: skipped calls on a fresh Component, then epochs 2 and 1
C17_Witness ==
    /\ pc = "live"
    /\ epoch_log = <<2, 1>>
    /\ cur_epoch = 1
    /\ Len(power_usages) = 2
    /\ op = "collect_power_usage"
    /\ arg.epoch = -1

IsNotSpace(c) == c # " "

IsNotWhitespace(c) == c \notin {" ", "\t", "\n"}

Lower(c) == IF c = "A" THEN "a" ELSE IF c = "L" THEN "l" ELSE c

MaxOf(S) == CHOOSE x \in S : \A y \in S : x >= y

\* a string without the whitespace around it and without its spaces
Normalized(s) ==
    LET solid == {i \in DOMAIN s : IsNotWhitespace(s[i])}
    IN  IF solid = {} THEN <<>>
        ELSE SelectSeq(SubSeq(s, MinOf(solid), MaxOf(solid)), IsNotSpace)

\* the word "all" once surrounding whitespace and spaces are removed
ExactAll(s) == Normalized(s) = <<"a", "l", "l">>

\* the word "all" in any case once all whitespace is removed
LooseAll(s) ==
    LET t == SelectSeq(s, IsNotWhitespace)
    IN  [i \in DOMAIN t |-> Lower(t[i])] = <<"a", "l", "l">>

\* the pieces of a string between its commas, in order
TokensBetweenCommas(s) ==
    LET commas == {i \in DOMAIN s : s[i] = ","}
        n == Cardinality(commas)
        pos == [k \in 1..n |-> CHOOSE i \in commas :
                                  Cardinality({j \in commas : j < i}) = k - 1]
    IN  [k \in 1..(n + 1) |->
            SubSeq(s, IF k = 1 THEN 1 ELSE pos[k - 1] + 1,
                      IF k = n + 1 THEN Len(s) ELSE pos[k] - 1)]

\* create_components returned fresh Components with these names, in order
ReturnedComponents(names) ==
    /\ raised = NoError
    /\ Len(ret.list) = Len(names)
    /\ \A i \in DOMAIN names :
          /\ ret.list[i].name = names[i]
          /\ ret.list[i].power_usages = <<>>
          /\ ret.list[i].cur_epoch = -1

\* C12 as stated: create_components of "all" in any spacing or case returns
\* one Component per registered name, in registry order.
C12_AllAnySpacingOrCase ==
    (op = "create_components" /\ LooseAll(arg.chars)) =>
        ReturnedComponents(<<"gpu", "cpu">>)

\* C12 amended: create_components of the lower-case word "all", with any
\* whitespace around it and any spaces inside it, returns one Component per
\* registered name, in registry order; "all" in another case or with another
\* whitespace character inside it is taken as a name and raises
\* ComponentNameError.
C12_AllLowerCaseAnySpaces ==
    op = "create_components" =>
        /\ ExactAll(arg.chars) => ReturnedComponents(<<"gpu", "cpu">>)
        /\ (LooseAll(arg.chars) /\ ~ExactAll(arg.chars)) =>
              /\ raised = "ComponentNameError"
              /\ ret = None

\* C12 witness: " a ll " gave the gpu and the cpu Component
C12_Witness ==
    /\ op = "create_components"
    /\ arg.comp_str = " a ll "
    /\ ReturnedComponents(<<"gpu", "cpu">>)

\* C13: for a string that is not "all" once normalized, create_components
\* returns one Component per comma-separated token of the normalized string,
\* in order and named by the token; if a token (an empty one too) is not a
\* registered name it raises ComponentNameError and returns nothing.
C13_OneComponentPerToken ==
    (op = "create_components" /\ ~ExactAll(arg.chars)) =>
        LET toks == TokensBetweenCommas(Normalized(arg.chars))
            names == [i \in DOMAIN toks |-> Str(toks[i])]
        IN  IF \A i \in DOMAIN names : names[i] \in RegisteredNames
            THEN ReturnedComponents(names)
            ELSE /\ raised = "ComponentNameError"
                 /\ ret = None

\* C13 witness: "gpu, cpu" gave the gpu and then the cpu Component
C13_Witness ==
    /\ op = "create_components"
    /\ arg.comp_str = "gpu, cpu"
    /\ ReturnedComponents(<<"gpu", "cpu">>)

\* C14 as stated: error_by_name and handlers_by_name raise nothing for an
\* unregistered name, and handlers_by_name returns an empty list for it and
\* the registered list otherwise.
C14_LookupOfUnknownName ==
    /\ op \in {"error_by_name", "handlers_by_name"} => raised = NoError
    /\ op = "handlers_by_name" =>
          ret = IF arg.name = "gpu" THEN PyList(<<Handler("gpu", 1)>>)
                ELSE IF arg.name = "cpu" THEN PyList(<<Handler("cpu", 1)>>)
                ELSE PyList(<<>>)

====
